---- MODULE Spec2Model ----
(***************************************************************************)
(* Workflow orchestration of src/App.tsx: the WorkflowState record, the    *)
(* upload / analysis / research / asset / code phase chain with its        *)
(* asynchronous suspension points, the gallery with its durable record,    *)
(* remix, reset, deployment recording and asset hot-swap.                  *)
(*                                                                         *)
(* Texts that the code searches or rewrites (asset references, page        *)
(* source) are sequences of one-character strings.  A JavaScript event     *)
(* handler or promise continuation runs to its next await without          *)
(* interleaving, so each one is a single action; React applies the         *)
(* functional setState updaters of one handler in order, and the gallery   *)
(* persistence effect runs with the commit.                                *)
(***************************************************************************)
EXTENDS Integers, Sequences, FiniteSets, TLC

VARIABLES
  state,              \* the WorkflowState held by useState (App.tsx:47)
  storage,            \* the 'nano-forge-gallery' durable record
  isAssetStudioOpen,  \* App.tsx:52
  deployInFlight,     \* a publish started from PreviewFrame, not yet reported
  runs,               \* the asynchronous invocations, by start order
  started,            \* how many asynchronous invocations were started
  events,             \* how many user events were handled
  swapHist            \* history: the last effective hot-swap and the pages before it

vars == <<state, storage, isAssetStudioOpen, deployInFlight, runs, started, events, swapHist>>

---------------------------------------------------------------------------
(* Bounds of the model *)

\* asynchronous invocations (uploads, retries, confirmed refinements) per behaviour
MaxStarts == 2
\* files of one upload
MaxFiles == 2
\* user events that reach a handler of the workflow (uploads, confirmations,
\* retries, resets, remixes, page changes, publishes, studio reports) per behaviour
MaxEvents == 3
\* longest page source a hot-swap may produce
MaxCodeLen == 6

---------------------------------------------------------------------------
(* Values *)

Null == "null"
Undefined == "undefined"
NullRec == [isNull |-> TRUE]

Min(a, b) == IF a < b THEN a ELSE b

\* WorkflowStep (types.ts:32-41)
WorkflowStep ==
  {"UPLOAD", "RECIPE", "ANALYSIS", "RESEARCH", "EDITOR", "GENERATION", "CODING", "PREVIEW"}

\* the gallery cap of .slice(0, 20) (App.tsx:172)
GalleryCap == 20

\* the placeholder reference of a failed generation (App.tsx:150)
FallbackUrl == <<"f">>

\* "Forge sequence failed to initialize." (App.tsx:86)
DefaultError == "Forge sequence failed to initialize."

---------------------------------------------------------------------------
(* Text: String.prototype.split(separator) and Array.prototype.join *)

\* whether sep occurs in s at position i
OccursAt(s, sep, i) ==
  /\ i + Len(sep) - 1 <= Len(s)
  /\ \A k \in 1..Len(sep) : s[i + k - 1] = sep[k]

\* whether s contains sub (String.prototype.includes)
Contains(s, sub) == \E i \in 1..(Len(s) + 1) : OccursAt(s, sub, i)

RECURSIVE SplitFrom(_, _, _, _)
\* the pieces of s from the piece starting at from, scanning at i, left to right,
\* occurrences of sep not overlapping
SplitFrom(s, sep, i, from) ==
  IF i + Len(sep) - 1 > Len(s)
    THEN << SubSeq(s, from, Len(s)) >>
    ELSE IF OccursAt(s, sep, i)
      THEN << SubSeq(s, from, i - 1) >> \o SplitFrom(s, sep, i + Len(sep), i + Len(sep))
      ELSE SplitFrom(s, sep, i + 1, from)

\* s.split(sep); an empty separator splits into the single characters
Split(s, sep) ==
  IF sep = <<>> THEN [k \in 1..Len(s) |-> << s[k] >>] ELSE SplitFrom(s, sep, 1, 1)

RECURSIVE Join(_, _)
\* parts.join(glue)
Join(parts, glue) ==
  IF parts = <<>> THEN <<>>
  ELSE IF Len(parts) = 1 THEN parts[1]
  ELSE parts[1] \o glue \o Join(Tail(parts), glue)

\* page.code.split(old).join(new) (App.tsx:204)
ReplaceAll(code, old, new) == Join(Split(code, old), new)

RECURSIVE Concat(_)
Concat(texts) == IF texts = <<>> THEN <<>> ELSE texts[1] \o Concat(Tail(texts))

\* the sequences over S of length lo..hi
SeqsOf(S, lo, hi) == UNION { [1..n -> S] : n \in lo..hi }

\* xs.map(f) for a sequence
Map(f(_), xs) == [k \in 1..Len(xs) |-> f(xs[k])]

---------------------------------------------------------------------------
(* Inputs: what the user and the external services may supply *)

\* the files a user may pick
Files == [i \in 1..MaxFiles |-> << "file", i >>]
FileLists == { Files }

\* reader.result of readAsDataURL, as its comma-separated pieces (App.tsx:74-75)
ReadAsDataURL(file) == << "data:image/png;base64", << "b64", file >> >>

\* (reader.result as string).split(',')[1] (App.tsx:74)
EncodedImage(result) == result[2]

\* the AnalysisResult (types.ts:43-52) that analyzeScreenshot resolves to for
\* invocation c: each call yields a result of its own
AnalysisOf(c) == [analysis |-> c]

\* err.message of a rejected service call
ErrorMessages == {"", "service unavailable"}

\* ProductItem (types.ts:60-66); image is optional
ProductWithImage == [id |-> "p1", name |-> "p1", price |-> "10", image |-> << "u" >>]
ProductNoImage == [id |-> "p2", name |-> "p2", price |-> "20"]
ProductEmptyImage == [id |-> "p3", name |-> "p3", price |-> "30", image |-> <<>>]

\* ResearchResult values (types.ts:68-85); products is optional
ResearchNoCatalog ==
  [trends |-> "t1", marketContent |-> [valueProposition |-> ""]]
ResearchCatalog ==
  [trends |-> "t2", marketContent |-> [valueProposition |-> "vp2"],
   products |-> << ProductWithImage, ProductNoImage >>]
ResearchResults == {ResearchNoCatalog, ResearchCatalog}

\* Partial<ResearchResult> values the refinery may confirm
Overrides ==
  { <<>>, [products |-> << ProductEmptyImage >>] }

\* references generateNanoImage may resolve to
GenUrls == { << "g" >> }

\* replacement references the asset studio may report
SwapUrls == { << "n" >> }

\* an asset identifier no live asset carries
UnknownId == << "a", 0, 0 >>

\* WebPage (types.ts:94-98)
Page(name, code) == [name |-> name, filename |-> name, code |-> code]

\* page lists generateSiteCode may resolve to for the given references
PageLists(urls) ==
  { <<>>,
    << Page("index", Concat(urls)), Page("about", << "x" >>) >> }

\* DeploymentState values the deployment provider may report (types.ts:21-30)
Deployments == { [status |-> "ready", url |-> "https://d1", siteId |-> "n1"] }

\* a GeneratedSite of an earlier session, as restored from the durable record;
\* analysis is optional (types.ts:108) and the odd ones carry it
OldSiteBase(k) ==
  [id |-> << "old", k >>, name |-> "old", pages |-> << Page("index", << "o" >>) >>,
   activePageIndex |-> 0, timestamp |-> 0,
   assets |-> << [id |-> << "a", 0, k >>, type |-> "hero", url |-> << "o" >>,
                  prompt |-> << "hero" >>] >>]
OldSite(k) ==
  IF k % 2 = 1
    THEN [key \in DOMAIN OldSiteBase(k) \cup {"analysis"} |->
            IF key = "analysis" THEN AnalysisOf(0) ELSE OldSiteBase(k)[key]]
    ELSE OldSiteBase(k)
OldGallery(n) == [k \in 1..n |-> OldSite(k)]

\* JSON.stringify / JSON.parse of the gallery (App.tsx:49, 57)
JSONStringify(value) == [json |-> value]
JSONParse(text) == text.json
\* storage.getItem of a key never written
NoItem == [missing |-> TRUE]

\* what the durable record may hold when a session starts
SavedRecords ==
  { NoItem, JSONStringify(OldGallery(GalleryCap)) }

---------------------------------------------------------------------------
(* WorkflowState *)

\* INITIAL_STATE (types.ts:112-117); the fields App.tsx never writes
\* (previousSite, deployment, selectedRecipe) are left out
INITIAL_STATE ==
  [step |-> "UPLOAD", uploadedImages |-> <<>>, analysis |-> NullRec, research |-> NullRec,
   researchOverrides |-> NullRec, generatedAssets |-> <<>>, site |-> NullRec,
   isProcessing |-> FALSE, error |-> Null, logs |-> <<>>, gallery |-> <<>>]

\* addLog (App.tsx:60-62), the timestamp left out
addLog(prev, msg) == [prev EXCEPT !.logs = Append(@, msg)]

RECURSIVE addLogs(_, _)
addLogs(prev, msgs) ==
  IF msgs = <<>> THEN prev ELSE addLogs(addLog(prev, msgs[1]), Tail(msgs))

\* a settled or abandoned invocation, and one not started
Done == [pc |-> "done"]
NotStarted == [pc |-> "none"]

\* a commit of the next WorkflowState; the persistence effect (App.tsx:56-58)
\* writes the gallery with it
Commit(next) ==
  /\ state' = next
  /\ storage' = JSONStringify(next.gallery)

\* the state after construction (App.tsx:47-58)
Init ==
  /\ \E saved \in SavedRecords :
       /\ state = [INITIAL_STATE EXCEPT
                     !.gallery = IF saved # NoItem THEN JSONParse(saved) ELSE <<>>]
       /\ storage = JSONStringify(state.gallery)
  /\ isAssetStudioOpen = FALSE
  /\ deployInFlight = FALSE
  /\ runs = [c \in 1..MaxStarts |-> NotStarted]
  /\ started = 0
  /\ events = 0
  /\ swapHist = NullRec

---------------------------------------------------------------------------
(* Upload, Analysis and Research (App.tsx:64-102) *)

Pending == [settled |-> FALSE]
Resolved(value) == [settled |-> TRUE, value |-> value]

\* a user event is handled, within the model's bound
UserEvent == events < MaxEvents /\ events' = events + 1

\* the upload input is rendered (App.tsx:266, 292)
UploadShown == state.step = "UPLOAD" /\ ~state.isProcessing

\* setState of App.tsx:68 and the first addLog
UploadAccepted(prev) ==
  addLog([prev EXCEPT !.isProcessing = TRUE, !.step = "UPLOAD", !.error = Null,
                      !.logs = <<>>],
         "Initializing Neural Forge kernel...")

\* runAnalysisPhase up to its first await (App.tsx:92-94)
AnalysisStarted(prev) ==
  addLog([prev EXCEPT !.step = "ANALYSIS"], "Deconstructing visual hierarchy...")

\* App.tsx:81-83: the images are stored and the Analysis phase is entered
UploadsStored(prev, base64Images) ==
  AnalysisStarted(addLog([prev EXCEPT !.uploadedImages = base64Images],
                         "Blueprints received"))

\* variant: a catch that also drops what the run had stored
UploadCatchClearing(prev, message) ==
  addLog([prev EXCEPT !.isProcessing = FALSE, !.analysis = NullRec,
                      !.uploadedImages = <<>>,
                      !.error = IF message # "" THEN message ELSE DefaultError],
         "[ERROR]")

\* the catch of handleFileUpload (App.tsx:84-88)
UploadCatch(prev, message) ==
  addLog([prev EXCEPT !.isProcessing = FALSE,
                      !.error = IF message # "" THEN message ELSE DefaultError],
         "[ERROR]")

\* handleFileUpload up to the await of Promise.all (App.tsx:64-80)
handleFileUpload(files) ==
  /\ UserEvent
  /\ UploadShown
  /\ Len(files) # 0
  /\ started < MaxStarts
  /\ started' = started + 1
  /\ runs' = [runs EXCEPT ![started + 1] =
                [pc |-> "reading", files |-> files,
                 promises |-> [i \in 1..Len(files) |-> Pending]]]
  /\ Commit(UploadAccepted(state))
  /\ UNCHANGED <<isAssetStudioOpen, deployInFlight, swapHist>>

\* reader.onloadend of file i with a result: the promise resolves; when it is the
\* last one, Promise.all resolves and the handler continues to analyzeScreenshot
ReaderLoaded(c, i) ==
  /\ runs[c].pc = "reading"
  /\ i \in 1..Len(runs[c].files)
  /\ ~runs[c].promises[i].settled
  /\ LET promises == [runs[c].promises EXCEPT
                        ![i] = Resolved(EncodedImage(ReadAsDataURL(runs[c].files[i])))]
         base64Images == [k \in 1..Len(promises) |-> promises[k].value]
     IN IF \A k \in 1..Len(promises) : promises[k].settled
          THEN /\ runs' = [runs EXCEPT ![c] = [pc |-> "analyze", caught |-> TRUE,
                                               base64Images |-> base64Images]]
               /\ Commit(UploadsStored(state, base64Images))
          ELSE /\ runs' = [runs EXCEPT ![c].promises = promises]
               /\ UNCHANGED <<state, storage>>
  /\ UNCHANGED <<isAssetStudioOpen, deployInFlight, started, events, swapHist>>

\* reader.onloadend of file i after a read error: reader.result is null, the
\* handler throws on .split, the promise never settles and neither does
\* Promise.all (App.tsx:72-76, 80)
ReaderFailed(c, i) ==
  /\ runs[c].pc = "reading"
  /\ i \in 1..Len(runs[c].files)
  /\ ~runs[c].promises[i].settled
  /\ runs' = [runs EXCEPT ![c] = Done]
  /\ UNCHANGED <<state, storage, isAssetStudioOpen, deployInFlight, started, events, swapHist>>

\* variant: research called before the analysis is stored
AnalysisStoredLate(prev, analysis) ==
  addLog([prev EXCEPT !.step = "RESEARCH"],
         "Mining sector intelligence & trending design patterns...")

\* App.tsx:95-99: the analysis is stored and research is called
AnalysisStored(prev, analysis) ==
  addLog([prev EXCEPT !.analysis = analysis, !.step = "RESEARCH"],
         "Mining sector intelligence & trending design patterns...")

\* App.tsx:100-101
ResearchStored(prev, research) ==
  addLog([prev EXCEPT !.research = research, !.step = "EDITOR", !.isProcessing = FALSE],
         "Harvest complete. Ready for catalog setup.")

\* a rejection inside runAnalysisPhase: caught by handleFileUpload when it was
\* awaited there, unhandled when runAnalysisPhase was called by onRetry
PhaseRejected(prev, caught, message) ==
  IF caught THEN UploadCatch(prev, message) ELSE prev

\* analyzeScreenshot resolves
AnalyzeResolved(c) ==
  /\ runs[c].pc = "analyze"
  /\ LET analysis == AnalysisOf(c) IN
     /\ runs' = [runs EXCEPT ![c] = [pc |-> "research", caught |-> runs[c].caught,
                                     analysis |-> analysis]]
     /\ Commit(AnalysisStored(state, analysis))
  /\ UNCHANGED <<isAssetStudioOpen, deployInFlight, started, events, swapHist>>

\* analyzeScreenshot rejects
AnalyzeRejected(c, message) ==
  /\ runs[c].pc = "analyze"
  /\ runs' = [runs EXCEPT ![c] = Done]
  /\ Commit(PhaseRejected(state, runs[c].caught, message))
  /\ UNCHANGED <<isAssetStudioOpen, deployInFlight, started, events, swapHist>>

\* conductResearch resolves
ResearchResolved(c, research) ==
  /\ runs[c].pc = "research"
  /\ runs' = [runs EXCEPT ![c] = Done]
  /\ Commit(ResearchStored(state, research))
  /\ UNCHANGED <<isAssetStudioOpen, deployInFlight, started, events, swapHist>>

\* conductResearch rejects
ResearchRejected(c, message) ==
  /\ runs[c].pc = "research"
  /\ runs' = [runs EXCEPT ![c] = Done]
  /\ Commit(PhaseRejected(state, runs[c].caught, message))
  /\ UNCHANGED <<isAssetStudioOpen, deployInFlight, started, events, swapHist>>

\* onRetry of PreviewFrame (App.tsx:329-332): runAnalysisPhase on the stored images
onRetry ==
  /\ UserEvent
  /\ state.step = "PREVIEW" /\ state.site # NullRec
  /\ started < MaxStarts
  /\ started' = started + 1
  /\ runs' = [runs EXCEPT ![started + 1] =
                [pc |-> "analyze", caught |-> FALSE,
                 base64Images |-> state.uploadedImages]]
  /\ Commit(AnalysisStarted(state))
  /\ UNCHANGED <<isAssetStudioOpen, deployInFlight, swapHist>>

---------------------------------------------------------------------------
(* Refinement, Asset phase and Code phase (App.tsx:104-177) *)

HasKey(record, key) == key \in DOMAIN record

\* variant: the spread in the other order, the stored result winning
MergeResearchBaseWins(base, overrides) ==
  [key \in DOMAIN base \cup DOMAIN overrides |->
     IF key \in DOMAIN base THEN base[key] ELSE overrides[key]]

\* { ...state.research!, ...overrides } (App.tsx:107)
MergeResearch(base, overrides) ==
  [key \in DOMAIN base \cup DOMAIN overrides |->
     IF key \in DOMAIN overrides THEN overrides[key] ELSE base[key]]

\* if (product.image): the image is present and not the empty string (App.tsx:124)
HasImage(product) == HasKey(product, "image") /\ product.image # <<>>

\* the slot of one catalog product (App.tsx:124-132)
ProductPrompt(product) ==
  IF HasImage(product)
    THEN [type |-> "product", prompt |-> << "User uploaded product", product.name >>,
          existingUrl |-> product.image]
    ELSE [type |-> "product", prompt |-> << "photography of", product.name >>]

\* variant: the catalog slots pushed before the hero and the feature
AssetPromptsCatalogFirst(analysis, finalResearch) ==
  (IF HasKey(finalResearch, "products") /\ Len(finalResearch.products) > 0
     THEN Map(ProductPrompt, finalResearch.products)
     ELSE <<>>)
  \o << [type |-> "hero",
         prompt |-> << "hero visual for", analysis,
                       finalResearch.marketContent.valueProposition >>],
        [type |-> "feature", prompt |-> << "background for", analysis >>] >>

\* assetPrompts (App.tsx:113-134)
AssetPrompts(analysis, finalResearch) ==
  << [type |-> "hero",
      prompt |-> << "hero visual for", analysis,
                    finalResearch.marketContent.valueProposition >>],
     [type |-> "feature", prompt |-> << "background for", analysis >>] >>
  \o (IF HasKey(finalResearch, "products") /\ Len(finalResearch.products) > 0
        THEN Map(ProductPrompt, finalResearch.products)
        ELSE <<>>)

\* variant: the loop without its existingUrl shortcut, every slot generated
HasExistingUrlNever(req) == FALSE

\* if (req.existingUrl) (App.tsx:138)
HasExistingUrl(req) == HasKey(req, "existingUrl") /\ req.existingUrl # <<>>

\* { id: Math.random()..., ...req, url } (App.tsx:140, 147, 150): the identifier
\* is fresh, here the invocation and the slot
NewAsset(c, slot, req, url) ==
  [key \in DOMAIN req \cup {"id", "url"} |->
     CASE key = "id" -> << "a", c, slot >>
       [] key = "url" -> url
       [] OTHER -> req[key]]

RECURSIVE TakeExisting(_, _, _)
\* the loop of App.tsx:137-142 from the slot after assets, up to the next slot
\* that needs generateNanoImage or to the end
TakeExisting(c, assetPrompts, assets) ==
  LET slot == Len(assets) + 1 IN
  IF slot <= Len(assetPrompts) /\ HasExistingUrl(assetPrompts[slot])
    THEN TakeExisting(c, assetPrompts,
           Append(assets, NewAsset(c, slot, assetPrompts[slot],
                                   assetPrompts[slot].existingUrl)))
    ELSE assets

\* the log lines of that stretch of the loop (App.tsx:139, 144)
LoopLogs(assetPrompts, before, after) ==
  [k \in 1..(Len(after) - Len(before)) |-> "Using user-uploaded artifact"]
  \o (IF Len(after) < Len(assetPrompts) THEN << "Forging artifact" >> ELSE <<>>)

\* App.tsx:153-156: the loop has ended
AssetsStored(prev, assets) ==
  addLog([prev EXCEPT !.generatedAssets = assets, !.step = "CODING"],
         "Architecting multi-page source via Gemini Forge...")

\* the loop from the slot after assets to its next await: the invocation's next
\* record (calls counts the generateNanoImage calls issued per slot) ...
LoopRun(run, assets) ==
  LET after == TakeExisting(run.c, run.assetPrompts, assets) IN
  [run EXCEPT !.assets = after,
              !.pc = IF Len(after) < Len(run.assetPrompts) THEN "image" ELSE "code",
              !.calls = IF Len(after) < Len(run.assetPrompts)
                          THEN [@ EXCEPT ![Len(after) + 1] = @ + 1] ELSE @]

\* ... and the WorkflowState it leaves
LoopState(prev, run, assets) ==
  LET after == TakeExisting(run.c, run.assetPrompts, assets)
      logged == addLogs(prev, LoopLogs(run.assetPrompts, assets, after))
  IN IF Len(after) < Len(run.assetPrompts) THEN logged ELSE AssetsStored(logged, after)

\* setState of App.tsx:105 and the addLog of line 106
RefineryConfirmed(prev, overrides) ==
  addLog([prev EXCEPT !.researchOverrides = overrides, !.step = "GENERATION",
                      !.isProcessing = TRUE],
         "Refinery settings locked. Casting production assets...")

\* handleRefineryConfirm and runAssetPhase up to its first await (App.tsx:104-146);
\* with no stored analysis line 116 throws and the invocation ends there
handleRefineryConfirm(overrides) ==
  /\ UserEvent
  /\ state.step = "EDITOR" /\ state.research # NullRec
  /\ started < MaxStarts
  /\ started' = started + 1
  /\ LET c == started + 1
         finalResearch == MergeResearch(state.research, overrides)
         analysis == state.analysis
         assetPrompts == AssetPrompts(analysis, finalResearch)
         run == [pc |-> "image", c |-> c, analysis |-> analysis,
                 finalResearch |-> finalResearch, assetPrompts |-> assetPrompts,
                 assets |-> <<>>, calls |-> [k \in 1..Len(assetPrompts) |-> 0],
                 failed |-> {}]
         confirmed == RefineryConfirmed(state, overrides)
     IN IF analysis = NullRec
          THEN /\ runs' = [runs EXCEPT ![c] = Done]
               /\ Commit(confirmed)
          ELSE /\ runs' = [runs EXCEPT ![c] = LoopRun(run, <<>>)]
               /\ Commit(LoopState(confirmed, run, <<>>))
  /\ UNCHANGED <<isAssetStudioOpen, deployInFlight, swapHist>>

\* generateNanoImage resolves for the pending slot (App.tsx:146-147)
ImageResolved(c, url) ==
  /\ runs[c].pc = "image"
  /\ LET run == runs[c]
         slot == Len(run.assets) + 1
         assets == Append(run.assets, NewAsset(c, slot, run.assetPrompts[slot], url))
     IN /\ runs' = [runs EXCEPT ![c] = LoopRun(run, assets)]
        /\ Commit(LoopState(state, run, assets))
  /\ UNCHANGED <<isAssetStudioOpen, deployInFlight, started, events, swapHist>>

\* variant: the loop without its try/catch, a rejection ending the invocation
ImageRejectedAborts(c) ==
  /\ runs[c].pc = "image"
  /\ runs' = [runs EXCEPT ![c] = Done]
  /\ UNCHANGED <<state, storage, isAssetStudioOpen, deployInFlight, started, events, swapHist>>

\* generateNanoImage rejects for the pending slot (App.tsx:148-151)
ImageRejected(c) ==
  /\ runs[c].pc = "image"
  /\ LET run == runs[c]
         slot == Len(run.assets) + 1
         assets == Append(run.assets,
                          NewAsset(c, slot, run.assetPrompts[slot], FallbackUrl))
         warned == addLog(state, "[WARN] Generation failed. Using placeholder.")
     IN /\ runs' = [runs EXCEPT ![c] =
                      LoopRun([run EXCEPT !.failed = @ \cup {slot}], assets)]
        /\ Commit(LoopState(warned, run, assets))
  /\ UNCHANGED <<isAssetStudioOpen, deployInFlight, started, events, swapHist>>

\* finalResearch.marketContent.valueProposition || 'AI Generated Store' (App.tsx:161)
SiteName(finalResearch) ==
  IF finalResearch.marketContent.valueProposition # ""
    THEN finalResearch.marketContent.valueProposition
    ELSE "AI Generated Store"

\* newSite (App.tsx:159-167); the identifier is fresh, here the invocation
NewSite(c, run, pages) ==
  [id |-> << "site", c >>, name |-> SiteName(run.finalResearch), pages |-> pages,
   activePageIndex |-> 0, timestamp |-> c, assets |-> run.assets,
   analysis |-> run.analysis]

\* variant: the prepend without the slice
PrependUncapped(newSite, gallery) == << newSite >> \o gallery

\* [newSite, ...prev.gallery].slice(0, 20) (App.tsx:172)
PrependCapped(newSite, gallery) ==
  SubSeq(<< newSite >> \o gallery, 1, Min(Len(gallery) + 1, GalleryCap))

\* setState of App.tsx:169-175 and the addLog of line 176
SiteCompleted(prev, newSite) ==
  addLog([prev EXCEPT !.site = newSite,
                      !.gallery = PrependCapped(newSite, prev.gallery),
                      !.step = "PREVIEW", !.isProcessing = FALSE],
         "Foundry sequence complete. Store is live for testing.")

\* assets.map(a => a.url) (App.tsx:157)
AssetUrls(assets) == [k \in 1..Len(assets) |-> assets[k].url]

\* what generateSiteCode may resolve to for invocation c
CodePages(c) == IF runs[c].pc = "code" THEN PageLists(AssetUrls(runs[c].assets)) ELSE {}

\* generateSiteCode resolves (App.tsx:157-176)
CodeResolved(c, pages) ==
  /\ runs[c].pc = "code"
  /\ runs' = [runs EXCEPT ![c] = Done]
  /\ Commit(SiteCompleted(state, NewSite(c, runs[c], pages)))
  /\ UNCHANGED <<isAssetStudioOpen, deployInFlight, started, events, swapHist>>

\* generateSiteCode rejects: runAssetPhase is not awaited and nothing catches
\* the rejection (App.tsx:107, 157)
CodeRejected(c) ==
  /\ runs[c].pc = "code"
  /\ runs' = [runs EXCEPT ![c] = Done]
  /\ UNCHANGED <<state, storage, isAssetStudioOpen, deployInFlight, started, events, swapHist>>

---------------------------------------------------------------------------
(* Deployment Recorder, Asset Patcher, remix, reset (App.tsx:179-235) *)

\* { ...prev.site, deployment: { ...deployment, siteId: deployment.siteId } }
\* (App.tsx:182-188)
DeploymentCopy(deployment) ==
  [key \in DOMAIN deployment \cup {"siteId"} |->
     IF key = "siteId"
       THEN (IF HasKey(deployment, "siteId") THEN deployment.siteId ELSE Undefined)
       ELSE deployment[key]]

WithDeployment(site, deployment) ==
  [key \in DOMAIN site \cup {"deployment"} |->
     IF key = "deployment" THEN DeploymentCopy(deployment) ELSE site[key]]

\* variant: the updated site not written back to the gallery
MirrorNowhere(gallery, updatedSite) == gallery

\* prev.gallery.map(s => s.id === updatedSite.id ? updatedSite : s)
\* (App.tsx:189, 212)
MirrorIntoGallery(gallery, updatedSite) ==
  [k \in 1..Len(gallery) |->
     IF gallery[k].id = updatedSite.id THEN updatedSite ELSE gallery[k]]

\* the updater of handleDeploymentComplete (App.tsx:180-191)
DeploymentRecorded(prev, deployment) ==
  IF prev.site = NullRec THEN prev
  ELSE LET updatedSite == WithDeployment(prev.site, deployment) IN
       [prev EXCEPT !.site = updatedSite,
                    !.gallery = MirrorIntoGallery(prev.gallery, updatedSite)]

\* handleDeploymentComplete with its addLog (App.tsx:179-193)
handleDeploymentComplete(prev, deployment) ==
  addLog(DeploymentRecorded(prev, deployment), "DEPLOYMENT SYNC VERIFIED")

\* prev.generatedAssets.find(a => a.id === assetId) (App.tsx:199)
FindAsset(assets, assetId) ==
  IF \E k \in 1..Len(assets) : assets[k].id = assetId
    THEN assets[CHOOSE k \in 1..Len(assets) :
                  /\ assets[k].id = assetId
                  /\ \A j \in 1..(k - 1) : assets[j].id # assetId]
    ELSE NullRec

\* prev.generatedAssets.map(a => a.id === assetId ? { ...a, url: newUrl } : a)
\* (App.tsx:198)
UpdatedAssets(assets, assetId, newUrl) ==
  [k \in 1..Len(assets) |->
     IF assets[k].id = assetId THEN [assets[k] EXCEPT !.url = newUrl] ELSE assets[k]]

\* prev.site.pages.map(page => ({ ...page, code: ... })) (App.tsx:202-205)
UpdatedPages(pages, oldUrl, newUrl) ==
  [k \in 1..Len(pages) |->
     [pages[k] EXCEPT !.code = ReplaceAll(pages[k].code, oldUrl, newUrl)]]

\* the updater of handleAssetUpdated (App.tsx:196-214)
AssetSwapped(prev, assetId, newUrl) ==
  IF prev.site = NullRec THEN prev
  ELSE LET updatedAssets == UpdatedAssets(prev.generatedAssets, assetId, newUrl)
           oldAsset == FindAsset(prev.generatedAssets, assetId)
       IN IF oldAsset = NullRec THEN prev
          ELSE LET updatedSite ==
                     [prev.site EXCEPT
                        !.pages = UpdatedPages(prev.site.pages, oldAsset.url, newUrl),
                        !.assets = updatedAssets]
               IN [prev EXCEPT !.generatedAssets = updatedAssets,
                               !.site = updatedSite,
                               !.gallery = MirrorIntoGallery(prev.gallery, updatedSite)]

\* handleAssetUpdated with its addLog (App.tsx:195-216)
handleAssetUpdated(prev, assetId, newUrl) ==
  addLog(AssetSwapped(prev, assetId, newUrl), "Asset hot-swapped.")

\* site.analysis || null (App.tsx:224)
SiteAnalysis(site) == IF HasKey(site, "analysis") THEN site.analysis ELSE NullRec

\* variant: a remix that leaves the live asset list as it was
handleRemixKeepingAssets(prev, site) ==
  addLog([prev EXCEPT !.site = site, !.step = "PREVIEW", !.uploadedImages = <<>>,
                      !.analysis = SiteAnalysis(site), !.isProcessing = FALSE],
         "Reloading archive")

\* handleRemix (App.tsx:218-229)
handleRemix(prev, site) ==
  addLog([prev EXCEPT !.site = site, !.step = "PREVIEW", !.uploadedImages = <<>>,
                      !.analysis = SiteAnalysis(site),
                      !.generatedAssets = site.assets, !.isProcessing = FALSE],
         "Reloading archive")

\* the header's onClick (App.tsx:235)
reset(prev) == INITIAL_STATE

\* onPageChange of PreviewFrame (App.tsx:334)
onPageChange(prev, index) ==
  [prev EXCEPT !.site = IF prev.site # NullRec
                          THEN [prev.site EXCEPT !.activePageIndex = index]
                          ELSE NullRec]

---------------------------------------------------------------------------
(* The events of a session *)

\* the header is always rendered (App.tsx:233-242)
Reset ==
  /\ UserEvent
  /\ Commit(reset(state))
  /\ UNCHANGED <<isAssetStudioOpen, deployInFlight, runs, started, swapHist>>

\* the gallery entries the user picks from: the newest and the oldest
RemixChoices == IF state.gallery = <<>> THEN {} ELSE {1, Len(state.gallery)}

\* RemixGallery is rendered with the upload input (App.tsx:266, 296)
Remix(k) ==
  /\ UserEvent
  /\ UploadShown
  /\ Commit(handleRemix(state, state.gallery[k]))
  /\ UNCHANGED <<isAssetStudioOpen, deployInFlight, runs, started, swapHist>>

\* PreviewFrame is rendered (App.tsx:304, 329)
PreviewShown == state.step = "PREVIEW" /\ state.site # NullRec

PageChange(index) ==
  /\ UserEvent
  /\ PreviewShown
  /\ index \in 0..(Len(state.site.pages) - 1)
  /\ Commit(onPageChange(state, index))
  /\ UNCHANGED <<isAssetStudioOpen, deployInFlight, runs, started, swapHist>>

\* a publish is started from PreviewFrame; its result arrives later
StartDeploy ==
  /\ UserEvent
  /\ PreviewShown
  /\ ~deployInFlight
  /\ deployInFlight' = TRUE
  /\ UNCHANGED <<state, storage, isAssetStudioOpen, runs, started, swapHist>>

\* onDeploymentComplete (App.tsx:333)
DeploymentComplete(deployment) ==
  /\ deployInFlight
  /\ deployInFlight' = FALSE
  /\ Commit(handleDeploymentComplete(state, deployment))
  /\ UNCHANGED <<isAssetStudioOpen, runs, started, events, swapHist>>

\* the Studio button (App.tsx:245-251)
OpenStudio ==
  /\ state.step = "PREVIEW"
  /\ ~isAssetStudioOpen
  /\ isAssetStudioOpen' = TRUE
  /\ UNCHANGED <<state, storage, deployInFlight, runs, started, events, swapHist>>

\* AssetStudio is rendered (App.tsx:364)
StudioShown == isAssetStudioOpen /\ Len(state.generatedAssets) > 0

\* onClose (App.tsx:368)
CloseStudio ==
  /\ StudioShown
  /\ isAssetStudioOpen' = FALSE
  /\ UNCHANGED <<state, storage, deployInFlight, runs, started, events, swapHist>>

\* the identifiers the studio may report: those of the assets it shows, or one
\* that the live list no longer holds
StudioIds == { state.generatedAssets[k].id : k \in 1..Len(state.generatedAssets) }
               \cup {UnknownId}

\* no page grows past the model's bound
WithinCodeLen(st) ==
  IF st.site = NullRec THEN TRUE
  ELSE \A k \in 1..Len(st.site.pages) : Len(st.site.pages[k].code) <= MaxCodeLen

\* onAssetUpdated (App.tsx:367), the history left to the caller
StudioReport(assetId, newUrl) ==
  /\ UserEvent
  /\ StudioShown
  /\ WithinCodeLen(handleAssetUpdated(state, assetId, newUrl))
  /\ Commit(handleAssetUpdated(state, assetId, newUrl))
  /\ UNCHANGED <<isAssetStudioOpen, deployInFlight, runs, started>>

HotSwap(assetId, newUrl) ==
  /\ StudioReport(assetId, newUrl)
  /\ UNCHANGED swapHist

Next ==
  \/ \E files \in FileLists : handleFileUpload(files)
  \/ \E c \in 1..MaxStarts :
       \/ \E i \in 1..MaxFiles : ReaderLoaded(c, i)
       \/ \E i \in 1..MaxFiles : ReaderFailed(c, i)
       \/ AnalyzeResolved(c)
       \/ \E message \in ErrorMessages : AnalyzeRejected(c, message)
       \/ \E research \in ResearchResults : ResearchResolved(c, research)
       \/ \E message \in ErrorMessages : ResearchRejected(c, message)
       \/ \E url \in GenUrls : ImageResolved(c, url)
       \/ ImageRejected(c)
       \/ \E pages \in CodePages(c) : CodeResolved(c, pages)
       \/ CodeRejected(c)
  \/ \E overrides \in Overrides : handleRefineryConfirm(overrides)
  \/ onRetry
  \/ Reset
  \/ \E k \in RemixChoices : Remix(k)
  \/ \E index \in 0..1 : PageChange(index)
  \/ StartDeploy
  \/ \E deployment \in Deployments : DeploymentComplete(deployment)
  \/ OpenStudio
  \/ CloseStudio
  \/ \E assetId \in StudioIds, newUrl \in SwapUrls : HotSwap(assetId, newUrl)

Spec == Init /\ [][Next]_vars

\* the awaited generateImage call of invocation c settles (App.tsx:146)
ImageSettles(c) ==
  \/ \E url \in GenUrls : ImageResolved(c, url)
  \/ ImageRejected(c)

\* the awaited generateSiteCode call of invocation c settles (App.tsx:157)
CodeSettles(c) ==
  \/ \E pages \in CodePages(c) : CodeResolved(c, pages)
  \/ CodeRejected(c)

\* an awaited generation call settles while one is pending
SpecFair ==
  Spec /\ WF_vars(\E c \in 1..MaxStarts : ImageSettles(c) \/ CodeSettles(c))

---------------------------------------------------------------------------
(* The Asset Patcher on its own: a session in PREVIEW whose generations
   resolved to arbitrary references and page source, and hot-swaps on it *)

\* longest page source generateSiteCode resolves to here
MaxPageText == 3

\* references of the generated assets and of the replacements
SwapTexts == { << "a" >>, << "b" >>, << "a", "b" >> }

\* page sources
PageTexts == SeqsOf({"a", "b"}, 0, MaxPageText)

\* the WorkflowState after one upload and one confirmed refinement whose hero
\* and feature generations resolved to heroUrl and featureUrl and whose code
\* generation resolved to one page of source code
PreviewState(heroUrl, featureUrl, code) ==
  LET images == [i \in 1..Len(Files) |-> EncodedImage(ReadAsDataURL(Files[i]))]
      s1 == UploadsStored(UploadAccepted(INITIAL_STATE), images)
      s2 == AnalysisStored(s1, AnalysisOf(1))
      s3 == ResearchStored(s2, ResearchNoCatalog)
      finalResearch == MergeResearch(ResearchNoCatalog, <<>>)
      assetPrompts == AssetPrompts(AnalysisOf(1), finalResearch)
      run == [pc |-> "image", c |-> 2, analysis |-> AnalysisOf(1),
              finalResearch |-> finalResearch, assetPrompts |-> assetPrompts,
              assets |-> <<>>, calls |-> [k \in 1..Len(assetPrompts) |-> 0],
              failed |-> {}]
      s4 == LoopState(RefineryConfirmed(s3, <<>>), run, <<>>)
      a1 == << NewAsset(2, 1, assetPrompts[1], heroUrl) >>
      s5 == LoopState(s4, run, a1)
      a2 == Append(a1, NewAsset(2, 2, assetPrompts[2], featureUrl))
      s6 == LoopState(s5, run, a2)
  IN SiteCompleted(s6, NewSite(2, [run EXCEPT !.assets = a2], << Page("index", code) >>))

\* the session as the studio opens; its events are counted from here
InitSwap ==
  /\ \E heroUrl \in SwapTexts, featureUrl \in SwapTexts, code \in PageTexts :
       state = PreviewState(heroUrl, featureUrl, code)
  /\ storage = JSONStringify(state.gallery)
  /\ isAssetStudioOpen = TRUE
  /\ deployInFlight = FALSE
  /\ runs = [c \in 1..MaxStarts |-> IF c <= 2 THEN Done ELSE NotStarted]
  /\ started = 2
  /\ events = 0
  /\ swapHist = NullRec

\* the history of a report that found its asset: what was swapped, the pages
\* before it, and whether it reverses the swap before it
SwapRecord(prev, hist, assetId, newUrl) ==
  LET oldAsset == FindAsset(prev.generatedAssets, assetId)
      back == IF hist = NullRec THEN FALSE
              ELSE /\ hist.assetId = assetId
                   /\ hist.newUrl = oldAsset.url
                   /\ hist.oldUrl = newUrl
  IN IF prev.site = NullRec \/ oldAsset = NullRec THEN hist
     ELSE [assetId |-> assetId, oldUrl |-> oldAsset.url, newUrl |-> newUrl,
           before |-> prev.site.pages, back |-> back,
           origin |-> IF back THEN hist.before ELSE <<>>]

TrackedHotSwap(assetId, newUrl) ==
  /\ StudioReport(assetId, newUrl)
  /\ swapHist' = SwapRecord(state, swapHist, assetId, newUrl)

NextSwap == \E assetId \in StudioIds, newUrl \in SwapTexts : TrackedHotSwap(assetId, newUrl)

SpecSwap == InitSwap /\ [][NextSwap]_vars

---------------------------------------------------------------------------
(* Properties *)

\* invocation c's generateSiteCode resolves in this step and the site is committed
CodeCompletes(c) ==
  /\ runs[c].pc = "code"
  /\ runs'[c].pc = "done"
  /\ state' # state

\* C1: every completion of the Code phase commits a state in which the new site
\* is the active site and the first gallery entry, the rest of the gallery is the
\* previous gallery in its order, cut to 20 entries; and no step leaves a gallery
\* of more than 20 entries (the restored gallery has at most 20).
C1_GalleryPrepend ==
  [][ /\ Len(state'.gallery) <= GalleryCap
      /\ \A c \in 1..MaxStarts :
           CodeCompletes(c) =>
             /\ state'.site # NullRec
             /\ state'.site # state.site
             /\ state'.site.id = << "site", c >>
             /\ state'.site.assets = runs[c].assets
             /\ state'.gallery[1] = state'.site
             /\ Len(state'.gallery) = Min(Len(state.gallery) + 1, GalleryCap)
             /\ \A k \in 2..Len(state'.gallery) : state'.gallery[k] = state.gallery[k - 1]
    ]_vars

\* a completion on a full gallery: the new site leads and the oldest entry is gone
C1_Witness ==
  /\ state.step = "PREVIEW"
  /\ state.site # NullRec
  /\ Len(state.gallery) = GalleryCap
  /\ state.gallery[1] = state.site
  /\ state.site.id[1] = "site"
  /\ state.gallery[GalleryCap].id = << "old", GalleryCap - 1 >>

\* C2: reset clears the active-run fields and returns Step to UPLOAD, and leaves
\* the gallery and its durable record as they were.
C2_ResetKeepsGallery ==
  [][ Reset =>
        /\ state'.analysis = NullRec /\ state'.research = NullRec
        /\ state'.generatedAssets = <<>> /\ state'.site = NullRec
        /\ state'.logs = <<>> /\ state'.error = Null
        /\ state'.step = "UPLOAD"
        /\ state'.gallery = state.gallery
        /\ storage' = storage
    ]_vars

\* C3: remix of a stored site makes exactly that site the active site, restores
\* its assets and its analysis (or none), empties uploadedImages, enters PREVIEW
\* with the processing flag false, leaves the gallery as it was and starts no
\* generation call.
C3_Remix ==
  [][ \A k \in RemixChoices :
        Remix(k) =>
          LET site == state.gallery[k] IN
          /\ state'.site = site
          /\ state'.generatedAssets = site.assets
          /\ state'.analysis = (IF "analysis" \in DOMAIN site THEN site.analysis ELSE NullRec)
          /\ state'.uploadedImages = <<>>
          /\ state'.step = "PREVIEW"
          /\ ~state'.isProcessing
          /\ state'.gallery = state.gallery
          /\ runs' = runs /\ started' = started
    ]_vars

\* a stored site with assets and an analysis was remixed
C3_Witness ==
  /\ state.step = "PREVIEW"
  /\ state.site # NullRec
  /\ state.site.id[1] = "old"
  /\ state.analysis # NullRec
  /\ state.generatedAssets # <<>>
  /\ state.generatedAssets = state.site.assets
  /\ state.logs # <<>>
  /\ state.logs[Len(state.logs)] = "Reloading archive"

\* C4: after a hot-swap that found its asset and changed its reference, no page
\* of the active site contains the old reference and the asset entry carries
\* the new one.
C4_NoOldReference ==
  (swapHist # NullRec /\ swapHist.oldUrl # swapHist.newUrl) =>
    /\ \A k \in 1..Len(state.site.pages) :
         ~Contains(state.site.pages[k].code, swapHist.oldUrl)
    /\ FindAsset(state.site.assets, swapHist.assetId).url = swapHist.newUrl

\* C5: swapping an asset from u1 to u2 and then back to u1 restores every page's
\* source to what it was before the first swap, and the asset entry to u1.
C5_RoundTrip ==
  (swapHist # NullRec /\ swapHist.back) =>
    /\ state.site.pages = swapHist.origin
    /\ FindAsset(state.site.assets, swapHist.assetId).url = swapHist.newUrl

\* C6: a deployment recorded with no active site, and a hot-swap with no active
\* site or of an identifier the asset list does not hold, leave every field of
\* WorkflowState as it was.
C6_LookupNoOps ==
  [][ /\ \A deployment \in Deployments :
           (DeploymentComplete(deployment) /\ state.site = NullRec) => state' = state
      /\ \A assetId \in StudioIds, newUrl \in SwapUrls :
           ( /\ HotSwap(assetId, newUrl)
             /\ (state.site = NullRec \/ FindAsset(state.generatedAssets, assetId) = NullRec) )
           => state' = state
    ]_vars

\* a fatal phase of a run begun by acceptUploads or confirmRefinement fails
FatalPhaseFails(c) ==
  \/ runs[c].pc = "analyze" /\ runs[c].caught
       /\ \E message \in ErrorMessages : AnalyzeRejected(c, message)
  \/ runs[c].pc = "research" /\ runs[c].caught
       /\ \E message \in ErrorMessages : ResearchRejected(c, message)
  \/ CodeRejected(c)

\* C7: a failure of analyze, research or generateSiteCode ends the run with a
\* non-null error message and the processing flag false.
C7_FatalPhaseFailure ==
  [][ \A c \in 1..MaxStarts :
        FatalPhaseFails(c) => (state'.error # Null /\ ~state'.isProcessing)
    ]_vars

\* C8: a failed generateImage does not abort the run and sets no run-level error:
\* the slot is recorded with the fallback reference and the loop goes on; the
\* stored asset list has one entry per slot, the failed ones with the fallback
\* reference; when generateSiteCode resolves the run enters PREVIEW with the
\* processing flag false and those assets in the site; and, every awaited call
\* settling, a run with a failed slot always gets to the end of the Code phase.
C8_ImageFailureRecovered ==
  /\ [][ \A c \in 1..MaxStarts :
        /\ ImageRejected(c) =>
             LET slot == Len(runs[c].assets) + 1 IN
             /\ runs'[c].pc \in {"image", "code"}
             /\ Len(runs'[c].assets) >= slot
             /\ runs'[c].assets[slot].url = FallbackUrl
             /\ slot \in runs'[c].failed
             /\ state'.error = state.error
             /\ state'.isProcessing = state.isProcessing
        /\ (runs[c].pc = "image" /\ runs'[c].pc = "code") =>
             /\ Len(state'.generatedAssets) = Len(runs[c].assetPrompts)
             /\ \A k \in 1..Len(runs[c].assetPrompts) :
                  /\ state'.generatedAssets[k].type = runs[c].assetPrompts[k].type
                  /\ state'.generatedAssets[k].id = << "a", c, k >>
             /\ \A k \in runs'[c].failed : state'.generatedAssets[k].url = FallbackUrl
             /\ state'.error = state.error
        /\ CodeCompletes(c) =>
             /\ state'.step = "PREVIEW"
             /\ ~state'.isProcessing
             /\ state'.error = state.error
             /\ Len(state'.site.assets) = Len(runs[c].assetPrompts)
             /\ \A k \in runs[c].failed : state'.site.assets[k].url = FallbackUrl
    ]_vars
  /\ \A c \in 1..MaxStarts :
       (runs[c].pc \in {"image", "code"} /\ runs[c].failed # {}) ~> (runs[c].pc = "done")

\* a run whose hero and feature generations both failed is in PREVIEW, its
\* site holding the fallback reference in both slots, with no error
C8_Witness ==
  /\ state.step = "PREVIEW"
  /\ ~state.isProcessing
  /\ state.error = Null
  /\ state.site # NullRec
  /\ state.site.id[1] = "site"
  /\ Len(state.site.assets) >= 2
  /\ state.site.assets[1].url = FallbackUrl
  /\ state.site.assets[2].url = FallbackUrl
  /\ state.generatedAssets = state.site.assets

\* the catalog of a merged research result
CatalogOf(finalResearch) ==
  IF "products" \in DOMAIN finalResearch THEN finalResearch.products ELSE <<>>

\* C9: in the Asset phase no generateImage call is issued for the slot of a product
\* that carries a user-supplied image, and its asset's reference is that image;
\* for a product without one exactly one call is issued once its slot is reached.
C9_UserImagesNotGenerated ==
  \A c \in 1..MaxStarts :
    runs[c].pc \in {"image", "code"} =>
      LET run == runs[c]
          products == CatalogOf(run.finalResearch)
          reached == Len(run.assets) + (IF run.pc = "image" THEN 1 ELSE 0)
      IN /\ Len(run.assetPrompts) = 2 + Len(products)
         /\ \A j \in 1..Len(products) :
              LET slot == j + 2 IN
              IF "image" \in DOMAIN products[j] /\ products[j].image # <<>>
                THEN /\ run.calls[slot] = 0
                     /\ slot <= Len(run.assets) => run.assets[slot].url = products[j].image
                ELSE run.calls[slot] = (IF slot <= reached THEN 1 ELSE 0)

\* an Asset phase over a catalog with a user-supplied image and a product without
\* one has ended: one asset per slot, the image taken as it is, one call for the other
C9_Witness ==
  \E c \in 1..MaxStarts :
    /\ runs[c].pc = "code"
    /\ CatalogOf(runs[c].finalResearch) = << ProductWithImage, ProductNoImage >>
    /\ runs[c].calls = << 1, 1, 0, 1 >>
    /\ runs[c].assets[3].url = ProductWithImage.image
    /\ state.generatedAssets = runs[c].assets

\* C10: an upload settles either with every file's encoding in uploadedImages, or,
\* when a conversion fails, with uploadedImages empty, a non-null error, the
\* processing flag false and Step UPLOAD.
C10_UploadAllOrNothing ==
  [][ \A c \in 1..MaxStarts, i \in 1..MaxFiles :
        /\ (ReaderLoaded(c, i) /\ runs'[c].pc # "reading") =>
             /\ Len(state'.uploadedImages) = Len(runs[c].files)
             /\ \A k \in 1..Len(runs[c].files) :
                  state'.uploadedImages[k] = << "b64", runs[c].files[k] >>
        /\ ReaderFailed(c, i) =>
             /\ state'.uploadedImages = <<>>
             /\ state'.error # Null
             /\ ~state'.isProcessing
             /\ state'.step = "UPLOAD"
    ]_vars

\* C11: a confirmed refinement hands the Asset and Code phases a research result
\* that has, for every top-level key of the overrides, the overrides' value and,
\* for every other key of the stored research result, the stored value, and no
\* other key.
C11_MergedResearch ==
  [][ \A overrides \in Overrides :
        (handleRefineryConfirm(overrides) /\ state.analysis # NullRec) =>
          LET merged == runs'[started + 1].finalResearch IN
          /\ DOMAIN merged = DOMAIN state.research \cup DOMAIN overrides
          /\ \A key \in DOMAIN overrides : merged[key] = overrides[key]
          /\ \A key \in DOMAIN state.research \ DOMAIN overrides :
               merged[key] = state.research[key]
    ]_vars

\* a catalog override was confirmed over a stored result that has a catalog of
\* its own: the run holds the overrides' products and the stored market content,
\* and its slots are those of the overrides' catalog
C11_Witness ==
  \E c \in 1..MaxStarts :
    /\ runs[c].pc \in {"image", "code"}
    /\ state.research = ResearchCatalog
    /\ state.researchOverrides = [products |-> << ProductEmptyImage >>]
    /\ runs[c].finalResearch.products = << ProductEmptyImage >>
    /\ runs[c].finalResearch.marketContent = ResearchCatalog.marketContent
    /\ runs[c].finalResearch.trends = ResearchCatalog.trends
    /\ Len(runs[c].assetPrompts) = 3

\* an external phase call of invocation c is pending
CallPending(c) == runs[c].pc \in {"analyze", "research", "image", "code"}

\* C12: the processing flag agrees with Step: it is true at ANALYSIS, RESEARCH,
\* GENERATION and CODING, false at EDITOR and PREVIEW, and no external phase
\* call is pending while it is false.
C12_ProcessingAgreesWithStep ==
  /\ state.step \in {"ANALYSIS", "RESEARCH", "GENERATION", "CODING"} => state.isProcessing
  /\ state.step \in {"EDITOR", "PREVIEW"} => ~state.isProcessing
  /\ (\E c \in 1..MaxStarts : CallPending(c)) => state.isProcessing

\* C13: whenever there is an active site, every gallery entry that carries its
\* identifier is equal to it.
C13_SiteMirrorsGallery ==
  state.site # NullRec =>
    \A k \in 1..Len(state.gallery) :
      state.gallery[k].id = state.site.id => state.gallery[k] = state.site

\* the moves of an invocation from one await to the next, in pipeline order
RunEdges ==
  { << "none", "reading" >>, << "reading", "reading" >>,
    << "reading", "analyze" >>, << "reading", "done" >>,
    << "none", "analyze" >>, << "analyze", "research" >>, << "analyze", "done" >>,
    << "research", "done" >>,
    << "none", "image" >>, << "none", "done" >>, << "image", "image" >>,
    << "image", "code" >>, << "code", "done" >> }

\* C14: an invocation moves only forward along the pipeline and sets Step to the
\* phase it enters; analyzeScreenshot is called with the uploads stored, research
\* with the analysis stored, the Asset phase from EDITOR with research stored and
\* the refinement confirmed, generateSiteCode with an asset for every slot stored,
\* and PREVIEW is never entered or held without an active site.
C14_PipelineOrder ==
  [][ /\ state'.step = "PREVIEW" => state'.site # NullRec
      /\ \A c \in 1..MaxStarts :
           LET from == runs[c].pc
               to == runs'[c].pc
           IN /\ runs'[c] # runs[c] => << from, to >> \in RunEdges
              /\ (from = "none" /\ to = "reading") => state'.step = "UPLOAD"
              /\ (from # "analyze" /\ to = "analyze") =>
                   /\ state'.step = "ANALYSIS"
                   /\ state'.uploadedImages = runs'[c].base64Images
              /\ (from = "analyze" /\ to = "research") =>
                   /\ state'.step = "RESEARCH"
                   /\ state'.analysis # NullRec
                   /\ state'.analysis = runs'[c].analysis
              /\ (from = "research" /\ to = "done" /\ state'.step # state.step) =>
                   /\ state'.step = "EDITOR"
                   /\ state'.research # NullRec
              /\ (from = "none" /\ to = "image") =>
                   /\ state.step = "EDITOR"
                   /\ state.research # NullRec
                   /\ state'.researchOverrides # NullRec
                   /\ state'.step = "GENERATION"
              /\ (from = "image" /\ to = "image") =>
                   Len(runs'[c].assets) < Len(runs[c].assetPrompts)
              /\ (from = "image" /\ to = "code") =>
                   /\ state'.step = "CODING"
                   /\ Len(runs'[c].assets) = Len(runs[c].assetPrompts)
                   /\ state'.generatedAssets = runs'[c].assets
              /\ CodeCompletes(c) =>
                   /\ state'.step = "PREVIEW"
                   /\ state'.site.pages \in PageLists(AssetUrls(runs[c].assets))
    ]_vars

\* one upload has gone through every phase in order: its analysis, its research
\* and its assets are stored and its site is shown
C14_Witness ==
  /\ state.step = "PREVIEW"
  /\ state.site # NullRec
  /\ state.site.id = << "site", 2 >>
  /\ Len(state.uploadedImages) = MaxFiles
  /\ state.analysis = AnalysisOf(1)
  /\ state.site.analysis = AnalysisOf(1)
  /\ state.research # NullRec
  /\ state.researchOverrides # NullRec
  /\ runs[1].pc = "done" /\ runs[2].pc = "done"

\* the fields a pipeline run commits its results to
Committed(st) ==
  << st.step, st.analysis, st.research, st.generatedAssets, st.site, st.gallery,
     st.isProcessing, st.error >>

\* C15: a stale pending result is discarded: when reset has returned the state
\* to its initial values while a call of an earlier run was in flight, the
\* settlement of that call changes none of Step, analysis, research, assets,
\* site, gallery, processing flag and error.
C15_StaleResultDiscarded ==
  [][ \A c \in 1..MaxStarts :
        (state = INITIAL_STATE /\ CallPending(c) /\ runs'[c] # runs[c]) =>
          Committed(state') = Committed(state)
    ]_vars

\* C16: a rejection of analyzeScreenshot or of conductResearch changes no field
\* of WorkflowState other than error, isProcessing and logs: the uploads, a
\* stored analysis and research, the asset list, the site, the gallery and its
\* durable record keep their values.
C16_FailureKeepsCommitted ==
  [][ \A c \in 1..MaxStarts, message \in ErrorMessages :
        (AnalyzeRejected(c, message) \/ ResearchRejected(c, message)) =>
          /\ \A field \in DOMAIN state \ {"error", "isProcessing", "logs"} :
               state'[field] = state[field]
          /\ storage' = storage
    ]_vars

\* conductResearch has failed after the analysis was stored: the error is set
\* and the uploads, the analysis and the restored gallery are still there
C16_Witness ==
  /\ state.step = "RESEARCH"
  /\ state.error # Null
  /\ ~state.isProcessing
  /\ Len(state.uploadedImages) = MaxFiles
  /\ state.analysis = AnalysisOf(1)
  /\ Len(state.gallery) = GalleryCap
  /\ runs[1].pc = "done"

\* the slots of invocation c whose generateNanoImage call is issued and not settled
PendingSlots(c) ==
  { k \in 1..Len(runs[c].assetPrompts) : runs[c].calls[k] > 0 /\ k > Len(runs[c].assets) }

\* C17: within an Asset phase the slots are taken in slot order: the recorded
\* assets are those of the first slots, in order (hero, feature, then the catalog
\* products in catalog order); at most one generateNanoImage call is pending, that
\* of the slot after the recorded ones, and no later slot has had a call; when
\* generateSiteCode is called there are 2 + (catalog products) assets and it
\* gets their references in slot order.
C17_SlotOrder ==
  \A c \in 1..MaxStarts :
    runs[c].pc \in {"image", "code"} =>
      LET run == runs[c]
          products == CatalogOf(run.finalResearch)
          n == Len(run.assets)
      IN /\ n <= Len(run.assetPrompts)
         /\ \A k \in 1..n :
              /\ run.assets[k].id = << "a", c, k >>
              /\ run.assets[k].type = run.assetPrompts[k].type
              /\ run.assets[k].prompt = run.assetPrompts[k].prompt
              /\ run.assets[k].type =
                   (IF k = 1 THEN "hero" ELSE IF k = 2 THEN "feature" ELSE "product")
              /\ k > 2 => run.assets[k].prompt[2] = products[k - 2].name
         /\ PendingSlots(c) = (IF run.pc = "image" THEN {n + 1} ELSE {})
         /\ \A k \in 1..Len(run.assetPrompts) :
              /\ run.calls[k] <= 1
              /\ k > n + 1 => run.calls[k] = 0
         /\ run.pc = "code" =>
              /\ n = 2 + Len(products)
              /\ CodePages(c) = PageLists([k \in 1..n |-> run.assets[k].url])

\* an Asset phase over a catalog of two products has recorded its four assets
\* in slot order and called generateSiteCode
C17_Witness ==
  \E c \in 1..MaxStarts :
    /\ runs[c].pc = "code"
    /\ state.step = "CODING"
    /\ Len(runs[c].assets) = 4
    /\ [k \in 1..4 |-> runs[c].assets[k].type] = << "hero", "feature", "product", "product" >>
    /\ runs[c].assets[3].prompt[2] = "p1"
    /\ runs[c].assets[4].prompt[2] = "p2"
    /\ PendingSlots(c) = {}

\* C18: a deployment recorded on an active site gives the site that deployment
\* record, with the deployment's site id, and puts the updated site in place of
\* the gallery entries carrying its identifier; every other field of the site,
\* every other gallery entry, the gallery's length and order, Step and the
\* processing flag stay as they were.
C18_DeploymentRecorded ==
  [][ \A deployment \in Deployments :
        (DeploymentComplete(deployment) /\ state.site # NullRec) =>
          /\ DOMAIN state'.site = DOMAIN state.site \cup {"deployment"}
          /\ DOMAIN state'.site.deployment = DOMAIN deployment \cup {"siteId"}
          /\ \A key \in DOMAIN deployment : state'.site.deployment[key] = deployment[key]
          /\ state'.site.deployment.siteId =
               (IF "siteId" \in DOMAIN deployment THEN deployment.siteId ELSE Undefined)
          /\ \A key \in DOMAIN state.site \ {"deployment"} : state'.site[key] = state.site[key]
          /\ Len(state'.gallery) = Len(state.gallery)
          /\ \A k \in 1..Len(state.gallery) :
               state'.gallery[k] = (IF state.gallery[k].id = state.site.id
                                      THEN state'.site ELSE state.gallery[k])
          /\ state'.step = state.step
          /\ state'.isProcessing = state.isProcessing
    ]_vars

\* a deployment was recorded on a site assembled in this session: the site and
\* its gallery entry carry the record, the restored entries do not
C18_Witness ==
  /\ state.site # NullRec
  /\ state.site.id[1] = "site"
  /\ "deployment" \in DOMAIN state.site
  /\ state.site.deployment.siteId = "n1"
  /\ Len(state.gallery) = GalleryCap
  /\ state.gallery[1] = state.site
  /\ "deployment" \notin DOMAIN state.gallery[2]

\* C19: the active site's active-page index is a valid index into its page list.
C19_ActivePageValid ==
  state.site # NullRec =>
    /\ 0 <= state.site.activePageIndex
    /\ state.site.activePageIndex < Len(state.site.pages)

\* C20: whenever there is an active site, the live asset list is the site's own
\* asset list.
C20_LiveAssetsAreSiteAssets ==
  state.site # NullRec => state.generatedAssets = state.site.assets

\* C21: a hot-swap of one asset of the active site leaves every other asset
\* entry's reference as it was, and every page that contained the reference of
\* another asset entry still contains it; stated for the swap of an asset that
\* holds the fallback reference of a failed generation.
C21_OtherAssetsUntouched ==
  [][ \A assetId \in StudioIds, newUrl \in SwapUrls :
        ( /\ HotSwap(assetId, newUrl)
          /\ state.site # NullRec
          /\ state.generatedAssets = state.site.assets
          /\ FindAsset(state.site.assets, assetId) # NullRec
          /\ FindAsset(state.site.assets, assetId).url = FallbackUrl ) =>
          /\ Len(state'.site.assets) = Len(state.site.assets)
          /\ \A k \in 1..Len(state.site.assets) :
               state.site.assets[k].id # assetId =>
                 /\ state'.site.assets[k].url = state.site.assets[k].url
                 /\ \A p \in 1..Len(state.site.pages) :
                      Contains(state.site.pages[p].code, state.site.assets[k].url) =>
                        Contains(state'.site.pages[p].code, state.site.assets[k].url)
    ]_vars

====
